---- MODULE Spec2Model ----
(***************************************************************************)
(* GLab Ethernet switch: the frame handlers of the three revisions of the  *)
(* switch program kept in the repository.                                  *)
(*                                                                         *)
(*   "mappings"  src/src/switch/switch.c lines 1-345   (table `mappings`)  *)
(*   "hub"       src/src/switch/switch.c lines 346-580 (no table, floods)  *)
(*   "macToIfc"  src/unnamed/part_000                  (table `macToIfc`)  *)
(*                                                                         *)
(* A behaviour is one run of one revision: `build` is fixed by Init.       *)
(* The external loop (loop.c) delivers one message at a time and calls     *)
(* handle_frame, handle_mac or handle_control; each call is one action.    *)
(* The build line (src/unnamed/part_001) enables the address sanitizer,    *)
(* so an access through a null pointer or outside an object ends the       *)
(* process: proc = "crashed".  abort() gives proc = "aborted".             *)
(***************************************************************************)
EXTENDS Integers, Sequences, FiniteSets, TLC

VARIABLES
    build,                \* which revision of the program runs
    proc,                 \* "running", "aborted" (abort()), "crashed" (bad access)
    gifc,                 \* struct Interface gifc[0..num_ifc-1]
    mappings,             \* static struct Mapping *mappings
    mappings_next_empty,  \* static unsigned int mappings_next_empty
    macToIfc,             \* the storage macToIfc points to
    now,                  \* the clock read by time(NULL)
    call,                 \* the handler call performed by the last step
    out,                  \* the messages the last call wrote to stdout, in order
    fed,                  \* saturation and pair run: the frames fed so far
    thread                \* two-thread run: each thread's place in parse_frame and its locals

vars == <<build, proc, gifc, mappings, mappings_next_empty, macToIfc, now, call, out, fed,
          thread>>

-----------------------------------------------------------------------------
(* Bounds of the model *)

\* number of interfaces (argc - 1)
NumIfc == 3

\* the clock takes the values 0..MaxTime
MaxTime == 1

-----------------------------------------------------------------------------
(* Program constants *)

\* sizeof(struct EthernetHeader): packed, 6 + 6 + 2 bytes
sizeof_EthernetHeader == 14

\* static unsigned int mappings_size = 10
mappings_size == 10

\* #define macToIfc_size 10
macToIfc_size == 10

\* int invalidIndex = -1
invalidIndex == -1

num_ifc == NumIfc

\* a null pointer: a pointer to no storage
NULL == <<>>

-----------------------------------------------------------------------------
(* MAC addresses: six bytes, compared bytewise *)

Broadcast == <<255, 255, 255, 255, 255, 255>>
ZeroMac   == <<0, 0, 0, 0, 0, 0>>
MacA      == <<2, 0, 0, 0, 0, 10>>
MacB      == <<2, 0, 0, 0, 0, 11>>

\* the addresses frames carry in the model
FrameMacs == {MacA, MacB, Broadcast}

\* the addresses announced for interfaces in the model
IfcMacs == {MacA}

\* frame lengths offered: two below the header size, and the header size
ShortSizes == {10, 13}
FullSizes  == {14}

\* the bytes of a frame too short to hold a header are never read: one
\* content stands for all
Frames ==
    [size : ShortSizes, dst : {MacA}, src : {MacB}] \cup
    [size : FullSizes, dst : FrameMacs, src : FrameMacs]

\* interface numbers offered to the handlers (uint16_t): 0, 1..N and N+1
IfcNumbers == 0 .. (NumIfc + 1)

NoFrame == [size |-> 0, dst |-> ZeroMac, src |-> ZeroMac]

Builds == {"mappings", "hub", "macToIfc"}

\* the threads of the two-thread run, and a thread that is in no call
Threads == {1, 2}

ThreadIdle ==
    [pc |-> "idle", interface |-> 0, frame |-> NoFrame, t |-> 0,
     slot |-> invalidIndex, dstIndex |-> invalidIndex]

-----------------------------------------------------------------------------
(* Initial state *)

\* main: memset(ifc, 0, sizeof(ifc)); ifc[i - 1].ifc_num = i
InitGifc == [a \in 0 .. (num_ifc - 1) |-> [mac |-> ZeroMac, ifc_num |-> a + 1]]

\* a time stamp found in uninitialised storage that is later than the clock
GarbageTime == MaxTime + 1

\* malloc'ed storage is not initialised: its content is any value.  The model
\* samples it: slot 0 holds a unicast or the broadcast address and a time
\* stamp of 0 or one later than the clock, slot 1 holds another unicast
\* address with an interface number out of range (0) or in range (2), the
\* other slots hold zero bytes.
HeapSamples ==
    { [i \in 0 .. (macToIfc_size - 1) |->
          IF i = 0 THEN [mac |-> m0, ifc_num |-> 0, timeStamp |-> t0]
          ELSE IF i = 1 THEN [mac |-> MacB, ifc_num |-> n1, timeStamp |-> 0]
          ELSE [mac |-> ZeroMac, ifc_num |-> 0, timeStamp |-> 0]] :
      m0 \in {MacA, Broadcast}, n1 \in {0, 2}, t0 \in {0, GarbageTime} }

Init ==
    /\ build \in Builds
    /\ proc = "running"
    /\ gifc = InitGifc
    /\ mappings = NULL
    /\ mappings_next_empty = 0
    /\ macToIfc \in (IF build = "macToIfc" THEN HeapSamples ELSE {NULL})
    /\ now = 0
    /\ call = [op |-> "none", interface |-> 0, frame |-> NoFrame, mac |-> ZeroMac]
    /\ out = <<>>
    /\ fed = <<>>
    /\ thread = [k \in Threads |-> ThreadIdle]

-----------------------------------------------------------------------------
(* Helpers shared by the revisions *)

\* memcmp over the six bytes of two addresses: the sign of the first difference
RECURSIVE memcmp_from(_, _, _)
memcmp_from(m1, m2, k) ==
    IF k > Len(m1) THEN 0
    ELSE IF m1[k] < m2[k] THEN -1
    ELSE IF m1[k] > m2[k] THEN 1
    ELSE memcmp_from(m1, m2, k + 1)

memcmp(m1, m2) == memcmp_from(m1, m2, 1)

\* switch.c: static int maccmp: the value of memcmp (0 when equal); the
\* arguments are pointers, and memcmp reads through both
maccmp(mac1, mac2) ==
    IF mac1 = NULL \/ mac2 = NULL THEN "SEGV" ELSE memcmp(mac1, mac2)

\* part_000: static bool maccmp: memcmp(...) == 0
maccmp_bool(mac1, mac2) == memcmp(mac1, mac2) = 0

\* the length test off by one: a 13-byte frame passes
Malformed_off_by_one(frame) == frame.size < sizeof_EthernetHeader - 1

\* if (frame_size < sizeof(eh)) { "Malformed frame"; return; }
Malformed(frame) == frame.size < sizeof_EthernetHeader

\* forward_to: the message written to stdout: header type = dst->ifc_num,
\* followed by the frame bytes, unmodified
forward_to(dst_ifc_num, frame) == [type |-> dst_ifc_num, frame |-> frame]

\* the flooding loop skipping no interface
flood_skip_none(a, ifc_ix) == FALSE

\* for (a = 0; a < num_ifc; a++) if (&gifc[a].ifc_num != &ifc->ifc_num)
\*     forward_to(&gifc[a], ...)
\* ifc points at gifc[ifc_ix]; two element addresses differ iff the indices do
flood_skip(a, ifc_ix) == a = ifc_ix

\* the loop running from the last interface down to the first
flood_descending(ifc_ix, frame) ==
    LET idx  == [k \in 1 .. num_ifc |-> num_ifc - k]
        keep == SelectSeq(idx, LAMBDA a : ~ flood_skip(a, ifc_ix))
    IN  [k \in 1 .. Len(keep) |-> forward_to(gifc[keep[k]].ifc_num, frame)]

flood(ifc_ix, frame) ==
    LET idx  == [k \in 1 .. num_ifc |-> k - 1]
        keep == SelectSeq(idx, LAMBDA a : ~ flood_skip(a, ifc_ix))
    IN  [k \in 1 .. Len(keep) |-> forward_to(gifc[keep[k]].ifc_num, frame)]

\* the interface numbers a sequence of written messages is addressed to
EmittedTo(msgs) == { msgs[k].type : k \in 1 .. Len(msgs) }

-----------------------------------------------------------------------------
(* Revision "hub": switch.c lines 463-497 *)

parse_frame_hub(ifc_ix, frame) ==
    IF Malformed(frame)
    THEN [proc |-> "running", macToIfc |-> macToIfc, out |-> <<>>]
    ELSE [proc |-> "running", macToIfc |-> macToIfc, out |-> flood(ifc_ix, frame)]

-----------------------------------------------------------------------------
(* Revision "macToIfc": part_000 lines 115-192 *)

\* STEP 1, lines 139-163: one pass finding srcIndex, dstIndex, oldestIndex.
\* st.crashed: an access outside the storage (macToIfc[oldestIndex] with
\* oldestIndex = -1, line 146).
RECURSIVE macToIfc_scan(_, _, _)
macToIfc_scan(i, st, frame) ==
    IF i >= macToIfc_size THEN st
    ELSE
      LET s1 == IF st.srcIndex = invalidIndex
                THEN IF maccmp_bool(macToIfc[i].mac, frame.src)
                     THEN [st EXCEPT !.srcIndex = i]
                     ELSE IF st.oldestIndex \notin DOMAIN macToIfc
                     THEN [st EXCEPT !.crashed = TRUE]
                     ELSE IF macToIfc[i].timeStamp < macToIfc[st.oldestIndex].timeStamp
                     THEN [st EXCEPT !.oldestIndex = i]
                     ELSE st
                ELSE st
          s2 == IF s1.dstIndex = invalidIndex /\ maccmp_bool(macToIfc[i].mac, frame.dst)
                THEN [s1 EXCEPT !.dstIndex = i]
                ELSE s1
      IN  IF s1.crashed THEN s1
          ELSE IF s2.srcIndex # invalidIndex /\ s2.dstIndex # invalidIndex THEN s2
          ELSE macToIfc_scan(i + 1, s2, frame)

\* STEP 2 writing the slot after the source's
learn_slot_after(st) ==
    IF st.srcIndex # invalidIndex THEN st.srcIndex + 1 ELSE st.oldestIndex

\* STEP 2, lines 168-174: the slot written is the source's, or the oldest
learn_slot(st) ==
    IF st.srcIndex # invalidIndex THEN st.srcIndex ELSE st.oldestIndex

\* the interface number written to the slot, the time stamp to the one after
learn_write_split(tbl, slot, ifc_num, t) ==
    [tbl EXCEPT ![slot] = [@ EXCEPT !.ifc_num = ifc_num],
                ![slot + 1] = [@ EXCEPT !.timeStamp = t]]

\* lines 169-170 (172-173): the two fields written; the key is not written
learn_write(tbl, slot, ifc_num, t) ==
    [tbl EXCEPT ![slot] = [@ EXCEPT !.ifc_num = ifc_num, !.timeStamp = t]]

parse_frame_macToIfc(ifc_ix, frame) ==
    LET dead == [proc |-> "crashed", macToIfc |-> macToIfc, out |-> <<>>]
        st   == macToIfc_scan(0, [srcIndex |-> invalidIndex, dstIndex |-> invalidIndex,
                                  oldestIndex |-> invalidIndex, crashed |-> FALSE], frame)
        slot == learn_slot(st)
        tbl  == learn_write(macToIfc, slot, gifc[ifc_ix].ifc_num, now)
    IN  IF Malformed(frame)
        THEN [proc |-> "running", macToIfc |-> macToIfc, out |-> <<>>]
        ELSE IF st.crashed THEN dead
        \* ifc->ifc_num with ifc = &gifc[-1]: a read outside the array
        ELSE IF ifc_ix \notin DOMAIN gifc THEN dead
        ELSE IF slot \notin DOMAIN macToIfc THEN dead
        \* STEP 3, lines 179-191
        ELSE IF st.dstIndex # invalidIndex
        THEN [proc |-> "running", macToIfc |-> tbl,
              out |-> <<forward_to(tbl[st.dstIndex].ifc_num, frame)>>]
        ELSE [proc |-> "running", macToIfc |-> tbl, out |-> flood(ifc_ix, frame)]

-----------------------------------------------------------------------------
(* Revision "mappings": switch.c lines 115-258 *)

\* &(mappings[i].mac): the address of slot i's key; null storage has no slots
mac_ptr(mem, i) == IF mem = NULL THEN NULL ELSE mem[i].mac

\* line 142: if (&(eh).dst == NULL): the address of a local is never null
dst_is_null == FALSE

\* line 176: if (&(mappings[i]) == NULL || &(mappings[i]).mac == NULL)
slot_is_null(mem, i) == mem = NULL /\ i = 0

\* lines 174-194: the scan of Step 1.  The comparison of line 178 is the body
\* of the if of line 176, so it runs only for a null slot address, and reads
\* through it.  Line 189 reads mappings[i].timeRemembered.
RECURSIVE mappings_scan(_, _, _, _)
mappings_scan(i, st, frame, ifc_ix) ==
    LET c == IF slot_is_null(st.mem, i)
             THEN maccmp(mac_ptr(st.mem, i), frame.src)
             ELSE 0
    IN  IF i >= mappings_size THEN st
        ELSE IF c = "SEGV" THEN [st EXCEPT !.crashed = TRUE]
        ELSE IF c # 0
        \* lines 181-185: update the slot and break
        THEN [st EXCEPT !.mem[i].ifc_num = gifc[ifc_ix].ifc_num,
                        !.mem[i].timeRemembered = now,
                        !.isNew = 0]
        \* lines 189-193
        ELSE IF st.mem = NULL THEN [st EXCEPT !.crashed = TRUE]
        ELSE IF st.mem[i].timeRemembered < st.oldest
        THEN mappings_scan(i + 1, [st EXCEPT !.oldest = st.mem[i].timeRemembered,
                                             !.oldestIndex = i], frame, ifc_ix)
        ELSE mappings_scan(i + 1, st, frame, ifc_ix)

\* lines 225-234: maccmp(&(mappings[i].mac), &(eh.dst) == 0): the second
\* argument is the value of the comparison &(eh.dst) == 0, which is 0, a null
\* pointer; the first iteration reads through it
mappings_lookup_crashes(mem) ==
    mappings_size > 0 /\ maccmp(mac_ptr(mem, 0), NULL) = "SEGV"

parse_frame_mappings(ifc_ix, frame) ==
    LET same == [proc |-> "running", mappings |-> mappings,
                 mappings_next_empty |-> mappings_next_empty, out |-> <<>>]
        dead == [same EXCEPT !.proc = "crashed"]
        \* lines 142-157
        bc   == IF dst_is_null THEN flood(ifc_ix, frame) ELSE <<>>
        \* lines 169-194
        st   == mappings_scan(0, [mem |-> mappings, crashed |-> FALSE, isNew |-> 1,
                                  oldest |-> now, oldestIndex |-> 0], frame, ifc_ix)
        \* lines 197-217
        free  == mappings_next_empty < mappings_size
        index == IF free THEN mappings_next_empty ELSE st.oldestIndex
        next  == IF st.isNew = 1 /\ free THEN mappings_next_empty + 1
                 ELSE mappings_next_empty
        mem   == IF st.isNew = 1
                 THEN [st.mem EXCEPT ![index] = [mac |-> frame.src,
                                                 ifc_num |-> gifc[ifc_ix].ifc_num,
                                                 timeRemembered |-> now]]
                 ELSE st.mem
    IN  IF Malformed(frame) THEN same
        ELSE IF st.crashed THEN dead
        ELSE IF st.isNew = 1 /\ st.mem = NULL THEN dead
        ELSE IF mappings_lookup_crashes(mem) THEN dead
        \* lines 242-257: found_dest_mac stays 0 when the lookup loop has no turn
        ELSE [proc |-> "running", mappings |-> mem, mappings_next_empty |-> next,
              out |-> bc \o flood(ifc_ix, frame)]

-----------------------------------------------------------------------------
(* The handlers *)

parse_frame(ifc_ix, frame) ==
    CASE build = "hub" ->
           parse_frame_hub(ifc_ix, frame) @@
           [mappings |-> mappings, mappings_next_empty |-> mappings_next_empty]
      [] build = "macToIfc" ->
           parse_frame_macToIfc(ifc_ix, frame) @@
           [mappings |-> mappings, mappings_next_empty |-> mappings_next_empty]
      [] build = "mappings" ->
           parse_frame_mappings(ifc_ix, frame) @@ [macToIfc |-> macToIfc]

\* if (interface > num_ifc) abort();
interface_unknown(interface) == interface > num_ifc

\* handle_frame(interface, frame, frame_size)
handle_frame(interface, frame) ==
    /\ proc = "running"
    /\ call' = [op |-> "handle_frame", interface |-> interface, frame |-> frame,
                mac |-> ZeroMac]
    /\ IF interface_unknown(interface)
       THEN /\ proc' = "aborted"
            /\ out' = <<>>
            /\ UNCHANGED <<mappings, mappings_next_empty, macToIfc>>
       ELSE LET r == parse_frame(interface - 1, frame)
            IN  /\ proc' = r.proc
                /\ out' = r.out
                /\ mappings' = r.mappings
                /\ mappings_next_empty' = r.mappings_next_empty
                /\ macToIfc' = r.macToIfc
    /\ UNCHANGED <<build, gifc, now>>

\* the whole interface context overwritten by the address
store_mac_whole(g, ix, mac) == [g EXCEPT ![ix] = [mac |-> mac, ifc_num |-> 0]]

\* gifc[ifc_num - 1].mac = *mac
store_mac(g, ix, mac) == [g EXCEPT ![ix].mac = mac]

\* handle_mac(ifc_num, mac): gifc[ifc_num - 1].mac = *mac; with ifc_num = 0
\* the store is to gifc[-1], outside the array
handle_mac(ifc_num, mac) ==
    /\ proc = "running"
    /\ call' = [op |-> "handle_mac", interface |-> ifc_num, frame |-> NoFrame,
                mac |-> mac]
    /\ out' = <<>>
    /\ IF interface_unknown(ifc_num)
       THEN proc' = "aborted" /\ UNCHANGED gifc
       ELSE IF (ifc_num - 1) \notin DOMAIN gifc
       THEN proc' = "crashed" /\ UNCHANGED gifc
       ELSE proc' = "running" /\ gifc' = store_mac(gifc, ifc_num - 1, mac)
    /\ UNCHANGED <<build, mappings, mappings_next_empty, macToIfc, now>>

\* handle_control(cmd, cmd_len): the command is printed and ignored
handle_control ==
    /\ proc = "running"
    /\ call' = [op |-> "handle_control", interface |-> 0, frame |-> NoFrame,
                mac |-> ZeroMac]
    /\ out' = <<>>
    /\ UNCHANGED <<build, proc, gifc, mappings, mappings_next_empty, macToIfc, now>>

\* the clock of time(NULL) advances between calls and never goes back
Tick ==
    /\ proc = "running"
    /\ now < MaxTime
    /\ now' = now + 1
    /\ UNCHANGED <<build, proc, gifc, mappings, mappings_next_empty, macToIfc, call, out>>

Next ==
    \/ \E interface \in IfcNumbers, frame \in Frames :
           handle_frame(interface, frame) /\ UNCHANGED <<fed, thread>>
    \/ \E ifc_num \in IfcNumbers, mac \in IfcMacs :
           handle_mac(ifc_num, mac) /\ UNCHANGED <<fed, thread>>
    \/ handle_control /\ UNCHANGED <<fed, thread>>
    \/ Tick /\ UNCHANGED <<fed, thread>>

Spec == Init /\ [][Next]_vars

-----------------------------------------------------------------------------
(* Saturation run: frames with pairwise distinct unicast sources, one after  *)
(* another, on a clock that never goes back                                  *)

SatMac(k) == <<2, 0, 0, 0, 1, k>>

SatIfcs == {1, 2}

SatFeed ==
    /\ Len(fed) < mappings_size + 1
    /\ \E interface \in SatIfcs :
          /\ handle_frame(interface, [size |-> sizeof_EthernetHeader, dst |-> Broadcast,
                                      src |-> SatMac(Len(fed) + 1)])
          /\ fed' = Append(fed, interface)
    /\ UNCHANGED thread

SatNext ==
    \/ SatFeed
    \/ Tick /\ UNCHANGED <<fed, thread>>

SpecSat == Init /\ [][SatNext]_vars

-----------------------------------------------------------------------------
(* The address table as the forwarding step reads it *)

\* part_000 lines 151-156 (and switch.c lines 225-234): the first slot whose
\* key is the address; the result is the set holding that slot's interface
\* number, or the empty set when no slot matches or there is no storage
lookup(mac) ==
    IF macToIfc = NULL THEN {}
    ELSE LET hits == { i \in DOMAIN macToIfc : maccmp_bool(macToIfc[i].mac, mac) }
         IN  IF hits = {} THEN {}
             ELSE { macToIfc[CHOOSE i \in hits : \A j \in hits : i <= j].ifc_num }

\* the last step was handle_frame on a frame holding a whole header, arriving
\* on one of the interfaces 1..N
FrameCall ==
    /\ call.op = "handle_frame"
    /\ call.frame.size >= sizeof_EthernetHeader
    /\ call.interface \in 1 .. NumIfc

AllBut(interface) == (1 .. NumIfc) \ {interface}

-----------------------------------------------------------------------------
(* Claims *)

\* C1: after handle_frame has processed a well-formed frame with a
\* non-broadcast source M arriving on interface I in 1..N, the call has
\* returned and lookup(M) gives I.
C1_LearningCorrectness ==
    (FrameCall /\ call.frame.src # Broadcast)
        => (proc = "running" /\ lookup(call.frame.src) = {call.interface})

\* C2: the interfaces handle_frame emits a well-formed frame to never include
\* the interface the frame arrived on.
C2_NoSelfReflection ==
    FrameCall => call.interface \notin EmittedTo(out)

\* C3: a well-formed frame whose non-broadcast destination the table places
\* on the arrival interface itself is dropped: nothing is emitted.
C3_SameSegmentDrop ==
    (FrameCall /\ call.frame.dst # Broadcast /\ lookup(call.frame.dst) = {call.interface})
        => out = <<>>

\* C4: a handle_frame step on a well-formed frame whose source is the
\* broadcast address changes nothing in the address table.
C4_BroadcastNeverLearned ==
    [][(FrameCall' /\ call'.frame.src = Broadcast)
          => UNCHANGED <<mappings, mappings_next_empty, macToIfc>>]_vars

\* C5: a handle_frame step on a frame shorter than the 14-byte header,
\* arriving on an interface in 1..N, emits nothing, changes nothing in the
\* address table and returns to the caller (the process keeps running).
C5_MalformedDrop ==
    [][(/\ call'.op = "handle_frame"
        /\ call'.interface \in 1 .. NumIfc
        /\ call'.frame.size < sizeof_EthernetHeader)
          => (/\ out' = <<>>
              /\ proc' = "running"
              /\ UNCHANGED <<mappings, mappings_next_empty, macToIfc>>)]_vars

\* C5 witness: a revision with a table has handled a 13-byte frame on
\* interface 2 and is still running
C5_Witness ==
    /\ build = "macToIfc"
    /\ call.op = "handle_frame"
    /\ call.interface = 2
    /\ call.frame.size = sizeof_EthernetHeader - 1
    /\ proc = "running"
    /\ out = <<>>

\* C6: in the saturation run every call returns, and once CAPACITY+1
\* distinct sources have been fed, lookup of the first is unknown and lookup
\* of each of the other CAPACITY gives the interface it arrived on.
C6_EvictionUnderSaturation ==
    /\ fed # <<>> => proc = "running"
    /\ Len(fed) = mappings_size + 1 =>
          /\ lookup(SatMac(1)) = {}
          /\ \A k \in 2 .. (mappings_size + 1) : lookup(SatMac(k)) = {fed[k]}

\* C7: a well-formed frame whose non-broadcast destination the table places
\* on an interface J other than the arrival interface is emitted exactly
\* once, to J.
C7_KnownUnicastNarrowing ==
    \A J \in 1 .. NumIfc :
        (/\ FrameCall
         /\ call.frame.dst # Broadcast
         /\ lookup(call.frame.dst) = {J}
         /\ J # call.interface)
            => (Len(out) = 1 /\ out[1].type = J)

\* C8: a well-formed frame whose non-broadcast destination has no table
\* entry is emitted to exactly every interface but the arrival interface.
C8_UnknownUnicastFlood ==
    (FrameCall /\ call.frame.dst # Broadcast /\ lookup(call.frame.dst) = {})
        => EmittedTo(out) = AllBut(call.interface)

\* C9: a well-formed frame whose destination is the broadcast address is
\* emitted to exactly every interface but the arrival interface.
C9_BroadcastFlood ==
    (FrameCall /\ call.frame.dst = Broadcast)
        => EmittedTo(out) = AllBut(call.interface)

\* C10: handle_frame and handle_mac abort exactly when the interface number
\* is outside 1..N (0 included).
C10_UnknownInterfaceFatal ==
    (call.op \in {"handle_frame", "handle_mac"})
        => (proc = "aborted" <=> call.interface \notin 1 .. NumIfc)

-----------------------------------------------------------------------------
(* The address table as a whole *)

\* the slots that hold entries: switch.c lines 200 to 204 fill the slots in
\* order, the free ones start at mappings_next_empty; part_000 has no free
\* slot, its scans of lines 139 to 163 take every slot of the storage for an
\* entry; the revision of switch.c lines 346 to 580 keeps no table
occupied ==
    CASE build = "mappings" ->
             IF mappings = NULL THEN {} ELSE 0 .. (mappings_next_empty - 1)
      [] build = "macToIfc" -> DOMAIN macToIfc
      [] OTHER -> {}

\* the storage the slots of occupied are in
table == IF build = "mappings" THEN mappings ELSE macToIfc

\* the table as a set of (address, interface) pairs
TableEntries ==
    { [mac |-> table[i].mac, ifc_num |-> table[i].ifc_num] : i \in occupied }

\* the step is a call handle_frame(interface, frame)
FrameStep(interface, frame) ==
    /\ now' = now
    /\ call'.op = "handle_frame"
    /\ call'.interface = interface
    /\ call'.frame = frame

BroadcastFromA == [size |-> sizeof_EthernetHeader, dst |-> Broadcast, src |-> MacA]
ReplyFromB     == [size |-> sizeof_EthernetHeader, dst |-> MacA, src |-> MacB]

\* C11: on an empty table, a frame from A to the broadcast address arriving
\* on I is emitted to every interface but I and leaves the table {A on I};
\* on that table, a frame from B to A arriving on J # I is emitted to I only
\* and leaves the table {A on I, B on J}.
C11_LearnThenReply ==
    [][ \A I \in 1 .. NumIfc :
          /\ (TableEntries = {} /\ FrameStep(I, BroadcastFromA))
                => /\ proc' = "running"
                   /\ EmittedTo(out') = AllBut(I)
                   /\ TableEntries' = {[mac |-> MacA, ifc_num |-> I]}
          /\ \A J \in AllBut(I) :
                (TableEntries = {[mac |-> MacA, ifc_num |-> I]}
                    /\ FrameStep(J, ReplyFromB))
                => /\ proc' = "running"
                   /\ EmittedTo(out') = {I}
                   /\ Len(out') = 1
                   /\ TableEntries' = {[mac |-> MacA, ifc_num |-> I],
                                       [mac |-> MacB, ifc_num |-> J]} ]_vars

-----------------------------------------------------------------------------
(* Pair run: two frames, each holding a whole header, one after another on   *)
(* interfaces 1..N, on a clock that never goes back                          *)

PairFrames == { frame \in Frames : ~Malformed(frame) }

PairFeed ==
    /\ Len(fed) < 2
    /\ \E interface \in 1 .. NumIfc, frame \in PairFrames :
          /\ handle_frame(interface, frame)
          /\ fed' = Append(fed, [interface |-> interface, src |-> frame.src,
                                 t |-> now])
    /\ UNCHANGED thread

PairNext ==
    \/ PairFeed
    \/ Tick /\ UNCHANGED <<fed, thread>>

SpecPair == Init /\ [][PairNext]_vars

C13_UniqueKey ==
    call.op = "handle_frame" =>
        \A i \in occupied, j \in occupied :
            i # j => table[i].mac # table[j].mac

\* the number of slots of the table
CAPACITY == IF build = "mappings" THEN mappings_size ELSE macToIfc_size

\* the occupied slot with the smallest time stamp, the lowest index on a tie
Victim ==
    CHOOSE v \in occupied :
        \A i \in occupied :
            \/ table[v].timeStamp < table[i].timeStamp
            \/ table[v].timeStamp = table[i].timeStamp /\ v <= i

\* the step is a call of handle_frame on interface 1..N with a frame that
\* holds a whole header and whose non-broadcast source keys no occupied slot
LearnsNew ==
    /\ \E I \in 1 .. NumIfc : FrameStep(I, call'.frame)
    /\ ~Malformed(call'.frame)
    /\ call'.frame.src # Broadcast
    /\ \A i \in occupied : table[i].mac # call'.frame.src

\* C14: a call that learns an address keying no slot of a full table returns
\* and overwrites the slot with the smallest time stamp (lowest index on a
\* tie) and no other; when a slot is free it overwrites no occupied slot.
C14_EvictionVictim ==
    [][ LearnsNew =>
          IF Cardinality(occupied) = CAPACITY
          THEN /\ proc' = "running"
               /\ table'[Victim].mac = call'.frame.src
               /\ table'[Victim].ifc_num = call'.interface
               /\ \A i \in occupied \ {Victim} : table'[i] = table[i]
          ELSE \A i \in occupied : table'[i] = table[i] ]_vars

\* part_000 lines 130 to 133: the three indices before the scan
ScanStart ==
    [srcIndex |-> invalidIndex, dstIndex |-> invalidIndex,
     oldestIndex |-> invalidIndex, crashed |-> FALSE]

\* C15: the table never has more than CAPACITY occupied slots, and every
\* slot index a call of handle_frame reads in its scan or writes in its
\* learning step is one of 0 .. CAPACITY-1.
C15_CapacityBound ==
    [][ /\ Cardinality(occupied') <= CAPACITY
        /\ ( /\ build = "macToIfc"
             /\ \E I \in 1 .. NumIfc : FrameStep(I, call'.frame)
             /\ ~Malformed(call'.frame) )
           => LET st == macToIfc_scan(0, ScanStart, call'.frame)
              IN  /\ ~st.crashed
                  /\ learn_slot(st) \in 0 .. (CAPACITY - 1) ]_vars

\* C16: the frames a call of handle_frame emits go to strictly increasing
\* interface numbers, and each carries the frame the call received,
\* unchanged.
C16_EmissionOrderIntegrity ==
    call.op = "handle_frame" =>
        /\ \A k \in 1 .. Len(out) : out[k].frame = call.frame
        /\ \A k \in 1 .. (Len(out) - 1) : out[k].type < out[k + 1].type

\* a frame that arrived on interface 2 has been emitted to interface 1 first
\* and to the last interface last
C16_Witness ==
    /\ FrameCall
    /\ call.interface = 2
    /\ Len(out) = NumIfc - 1
    /\ out[1] = forward_to(1, call.frame)
    /\ out[Len(out)] = forward_to(NumIfc, call.frame)

\* the slots of the storage whose content the step changes
ChangedSlots ==
    IF table = NULL THEN {}
    ELSE { i \in DOMAIN table : table'[i] # table[i] }

\* C17: a call of handle_frame changes at most one slot of the table and
\* leaves the storage with the slots it had.
C17_SingleSlotEffect ==
    [][ (call'.op = "handle_frame" /\ now' = now)
          => /\ (table = NULL) = (table' = NULL)
             /\ table # NULL => DOMAIN table' = DOMAIN table
             /\ Cardinality(ChangedSlots) <= 1 ]_vars

\* a call has written the arrival interface and the time to slot 0, and the
\* slots after it hold what the storage started with
C17_Witness ==
    /\ build = "macToIfc"
    /\ FrameCall
    /\ proc = "running"
    /\ now > 0
    /\ macToIfc[0].ifc_num = call.interface
    /\ macToIfc[0].timeStamp = now
    /\ \E h \in HeapSamples :
          \A i \in 1 .. (macToIfc_size - 1) : macToIfc[i] = h[i]

\* C18: no step lowers the time stamp of an occupied slot, and after a call
\* of handle_frame that has learned a non-broadcast source, no slot has a
\* later time stamp than the slots keyed by that source.
C18_TimestampMonotonic ==
    [][ /\ \A i \in occupied : table'[i].timeStamp >= table[i].timeStamp
        /\ ( /\ \E I \in 1 .. NumIfc : FrameStep(I, call'.frame)
             /\ ~Malformed(call'.frame)
             /\ call'.frame.src # Broadcast
             /\ proc' = "running" )
           => \A i \in occupied', j \in occupied' :
                 table'[i].mac = call'.frame.src
                    => table'[i].timeStamp >= table'[j].timeStamp ]_vars

\* C19: a call handle_mac(n, mac) with n in 1..N returns, stores mac as the
\* address of interface n and changes neither the table nor anything else of
\* any interface; and whatever frame arrives on whatever interface next,
\* the interfaces it is flooded to are the same as before the announcement
\* (the table, which gives the interface of a known destination, being
\* unchanged as well).
C19_AnnounceMacIsolation ==
    [][ ( /\ call'.op = "handle_mac"
          /\ call'.interface \in 1 .. NumIfc
          /\ now' = now )
        => /\ proc' = "running"
           /\ UNCHANGED <<mappings, mappings_next_empty, macToIfc>>
           /\ \A a \in DOMAIN gifc :
                 /\ gifc'[a].ifc_num = gifc[a].ifc_num
                 /\ gifc'[a].mac = IF a = call'.interface - 1
                                   THEN call'.mac ELSE gifc[a].mac
           /\ \A a \in DOMAIN gifc, frame \in Frames :
                 flood(a, frame)' = flood(a, frame) ]_vars

\* interface 2 holds an announced address, and a frame that arrived on
\* interface 1 after the announcement has been flooded
C19_Witness ==
    /\ gifc[1].mac = MacA
    /\ gifc[0].mac = ZeroMac
    /\ FrameCall
    /\ call.interface = 1
    /\ EmittedTo(out) = AllBut(1)

-----------------------------------------------------------------------------
(* Two-thread run: handle_frame called once on each of two threads, the      *)
(* statements of parse_frame interleaved.  No statement of parse_frame takes *)
(* a lock.                                                                   *)

\* thread k enters parse_frame with a frame holding a whole header: it reads
\* the clock (part_000 line 134) and scans the table (lines 139-163); the
\* scan writes nothing.  In revision "mappings" the scan ends the process, in
\* revision "hub" there is nothing to scan or learn.
T_begin(k, interface, frame) ==
    /\ proc = "running"
    /\ thread[k].pc = "idle"
    /\ LET st   == macToIfc_scan(0, ScanStart, frame)
           slot == learn_slot(st)
           loc  == [interface |-> interface, frame |-> frame, t |-> now]
       IN  CASE build = "mappings" ->
                    /\ proc' = parse_frame_mappings(interface - 1, frame).proc
                    /\ UNCHANGED thread
             [] build = "hub" ->
                    /\ proc' = "running"
                    /\ thread' = [thread EXCEPT ![k] =
                           loc @@ [pc |-> "emit", slot |-> invalidIndex,
                                   dstIndex |-> invalidIndex]]
             [] OTHER ->
                    IF st.crashed \/ slot \notin DOMAIN macToIfc
                    THEN proc' = "crashed" /\ UNCHANGED thread
                    ELSE /\ proc' = "running"
                         /\ thread' = [thread EXCEPT ![k] =
                                loc @@ [pc |-> "write_ifc", slot |-> slot,
                                        dstIndex |-> st.dstIndex]]
    /\ UNCHANGED <<build, gifc, mappings, mappings_next_empty, macToIfc, now,
                   call, out, fed>>

\* part_000 line 169 (172): macToIfc[slot].ifc_num = ifc->ifc_num
T_write_ifc(k) ==
    /\ proc = "running"
    /\ thread[k].pc = "write_ifc"
    /\ macToIfc' = [macToIfc EXCEPT ![thread[k].slot].ifc_num =
                        gifc[thread[k].interface - 1].ifc_num]
    /\ thread' = [thread EXCEPT ![k].pc = "write_ts"]
    /\ UNCHANGED <<build, proc, gifc, mappings, mappings_next_empty, now, call,
                   out, fed>>

\* part_000 line 170 (173): macToIfc[slot].timeStamp = now
T_write_ts(k) ==
    /\ proc = "running"
    /\ thread[k].pc = "write_ts"
    /\ macToIfc' = [macToIfc EXCEPT ![thread[k].slot].timeStamp = thread[k].t]
    /\ thread' = [thread EXCEPT ![k].pc = "emit"]
    /\ UNCHANGED <<build, proc, gifc, mappings, mappings_next_empty, now, call,
                   out, fed>>

\* part_000 lines 179-191 (switch.c lines 488-496): forward or flood
T_emit(k) ==
    /\ proc = "running"
    /\ thread[k].pc = "emit"
    /\ out' = out \o
          ( IF thread[k].dstIndex # invalidIndex
            THEN <<forward_to(macToIfc[thread[k].dstIndex].ifc_num, thread[k].frame)>>
            ELSE flood(thread[k].interface - 1, thread[k].frame) )
    /\ thread' = [thread EXCEPT ![k].pc = "done"]
    /\ UNCHANGED <<build, proc, gifc, mappings, mappings_next_empty, macToIfc,
                   now, call, fed>>

ThreadNext ==
    \/ \E k \in Threads, interface \in 1 .. NumIfc, frame \in PairFrames :
           T_begin(k, interface, frame)
    \/ \E k \in Threads : T_write_ifc(k)
    \/ \E k \in Threads : T_write_ts(k)
    \/ \E k \in Threads : T_emit(k)
    \/ Tick /\ UNCHANGED <<fed, thread>>

SpecThreads == Init /\ [][ThreadNext]_vars

\* the table after the learning steps of thread a and then of thread b, each
\* as one step (every slot and field neither thread writes is as it is)
SerialTable(a, b) ==
    learn_write(
        learn_write(macToIfc, thread[a].slot,
                    gifc[thread[a].interface - 1].ifc_num, thread[a].t),
        thread[b].slot, gifc[thread[b].interface - 1].ifc_num, thread[b].t)

\* C20: when both threads have completed their learning steps, the table is
\* the table of one of the two serial orders of the two calls.
C20_AtomicLearn ==
    ( /\ build = "macToIfc"
      /\ proc = "running"
      /\ \A k \in Threads : thread[k].pc \in {"emit", "done"} )
    => \/ macToIfc = SerialTable(1, 2)
       \/ macToIfc = SerialTable(2, 1)

\* C21: a call of handle_frame on an interface 1..N with a frame holding a
\* whole header emits at most N-1 messages, no two of them to the same
\* interface.
C21_AtMostOncePerInterface ==
    FrameCall =>
        /\ Len(out) <= NumIfc - 1
        /\ \A k \in 1 .. Len(out), l \in 1 .. Len(out) :
              k # l => out[k].type # out[l].type

\* a frame to the broadcast address has been emitted once to each interface
\* other than the one it arrived on
C21_Witness ==
    /\ FrameCall
    /\ proc = "running"
    /\ call.frame.dst = Broadcast
    /\ Len(out) = NumIfc - 1
    /\ EmittedTo(out) = AllBut(call.interface)

\* C22: after any calls of handle_frame on interfaces 1..N, every occupied
\* slot's interface number is in 1..N, every message emitted is addressed
\* to an interface in 1..N, and when the destination keys a slot the
\* message is addressed to that slot's interface number.
C22_InterfaceNumbersInRange ==
    (fed # <<>> /\ FrameCall) =>
        /\ \A i \in occupied : table[i].ifc_num \in 1 .. NumIfc
        /\ \A k \in 1 .. Len(out) : out[k].type \in 1 .. NumIfc
        /\ (lookup(call.frame.dst) # {} /\ out # <<>>)
              => EmittedTo(out) = lookup(call.frame.dst)

====
